---- MODULE Spec2Model ----
(***************************************************************************)
(* Model of daikin_ir.ino: an IR pattern recorder / replayer driven by the *)
(* Arduino loop().  One action per handler that loop() dispatches to, plus *)
(* the physical button changing level between polls.                      *)
(*                                                                         *)
(* 32-bit values (micros(), millis(), startMicros, waitStartMillis,        *)
(* waitDelayMillis) are pairs <<hi, lo>> of 16-bit halves, so that the     *)
(* arithmetic modulo 2^32 is exact.  16-bit values are naturals < W16.     *)
(* Pointers into sig are element addresses: sig[i][k] is at i*SigLen + k.  *)
(***************************************************************************)
EXTENDS Integers, Sequences, FiniteSets

\* ---------------------------------------------------------------- bounds

\* Number of entries of one sig slot (400 in the source, scaled down).
SigLen == 3

\* How many polls of loopTx past the end of the sig array are explored.
MaxOob == 1

\* ------------------------------------------------------------- constants

HIGH == TRUE
LOW == FALSE

\* Range of uint16_t.
W16 == 65536

\* sizeof(uint16_t), the element type of sig.
ElemBytes == 2

\* sizeof(rxBuf): a data pointer of the ATMega328 the sketch is written for.
PtrBytes == 2

STATE_UNINITED == 0
STATE_LEARN_0 == 1
STATE_LEARN_1 == 2
STATE_INITED == 3
STATE_SEND_0 == 4
STATE_WAIT_0 == 5
STATE_SEND_1 == 6
STATE_WAIT_1 == 7

LearnStates == {STATE_LEARN_0, STATE_LEARN_1}
SendStates == {STATE_SEND_0, STATE_SEND_1}
WaitStates == {STATE_WAIT_0, STATE_WAIT_1}

nullptr == 0 - 1

\* ------------------------------------------------------ 32-bit arithmetic

\* A uint32_t below 2^31 as a pair of halves.
U32(n) == <<n \div W16, n % W16>>

Zero32 == <<0, 0>>

\* a - b modulo 2^32.
Sub32(a, b) ==
  LET borrow == IF a[2] < b[2] THEN 1 ELSE 0
  IN  <<(a[1] - b[1] - borrow + 2 * W16) % W16, (a[2] - b[2] + W16) % W16>>

Gt32(a, b) == a[1] > b[1] \/ (a[1] = b[1] /\ a[2] > b[2])

Ge32(a, b) == a = b \/ Gt32(a, b)

\* Conversion of a uint32_t to uint16_t.
Trunc16(a) == a[2]

kRxTimeoutMicros == <<1, 0>>

kDelay1Millis == 43200000

kCycleMillis == 86400000

\* Values micros() returns in the model.
MicrosPoints == {<<0, 0>>, <<0, 600>>, <<1, 0>>, <<1, 600>>, <<65535, 64936>>}

\* Values millis() returns in the model.
MillisPoints == {<<0, 0>>, U32(kDelay1Millis), U32(kDelay1Millis + 1), <<65535, 64536>>}

\* Values a read past the end of the sig array may yield.
OobValues == {0, 600}

Addrs == 0 .. (2 * SigLen - 1)

VARIABLES
  state, prevButton, sig, rxBuf, rxSize, prevRx, startMicros,
  txBuf, txLen, txHigh, waitStartMillis, waitDelayMillis,
  redLed, greenLed, builtinLed, carrier,
  button, micros, millis,
  btnEvent, risen, wrAddrs, rxTimes, played, txPolls, tainted, doneSlots

vars == <<state, prevButton, sig, rxBuf, rxSize, prevRx, startMicros,
          txBuf, txLen, txHigh, waitStartMillis, waitDelayMillis,
          redLed, greenLed, builtinLed, carrier,
          button, micros, millis,
          btnEvent, risen, wrAddrs, rxTimes, played, txPolls, tainted, doneSlots>>

\* The program's variables, the outputs, the clocks as last read, and the
\* history of the run (btnEvent .. doneSlots) as one record.
M ==
  [state |-> state, prevButton |-> prevButton, sig |-> sig, rxBuf |-> rxBuf,
   rxSize |-> rxSize, prevRx |-> prevRx, startMicros |-> startMicros,
   txBuf |-> txBuf, txLen |-> txLen, txHigh |-> txHigh,
   waitStartMillis |-> waitStartMillis, waitDelayMillis |-> waitDelayMillis,
   redLed |-> redLed, greenLed |-> greenLed, builtinLed |-> builtinLed,
   carrier |-> carrier, micros |-> micros, millis |-> millis,
   btnEvent |-> btnEvent, risen |-> risen, wrAddrs |-> wrAddrs,
   rxTimes |-> rxTimes, played |-> played, txPolls |-> txPolls,
   tainted |-> tainted, doneSlots |-> doneSlots]

Assign(r) ==
  /\ state' = r.state
  /\ prevButton' = r.prevButton
  /\ sig' = r.sig
  /\ rxBuf' = r.rxBuf
  /\ rxSize' = r.rxSize
  /\ prevRx' = r.prevRx
  /\ startMicros' = r.startMicros
  /\ txBuf' = r.txBuf
  /\ txLen' = r.txLen
  /\ txHigh' = r.txHigh
  /\ waitStartMillis' = r.waitStartMillis
  /\ waitDelayMillis' = r.waitDelayMillis
  /\ redLed' = r.redLed
  /\ greenLed' = r.greenLed
  /\ builtinLed' = r.builtinLed
  /\ carrier' = r.carrier
  /\ micros' = r.micros
  /\ millis' = r.millis
  /\ btnEvent' = r.btnEvent
  /\ risen' = r.risen
  /\ wrAddrs' = r.wrAddrs
  /\ rxTimes' = r.rxTimes
  /\ played' = r.played
  /\ txPolls' = r.txPolls
  /\ tainted' = r.tainted
  /\ doneSlots' = r.doneSlots

\* ------------------------------------------------------------ the sketch

\* SlotLen taken over the whole array: sizeof(sig) / sizeof(*sig[i]).
SlotLenWholeArray == 2 * SigLen

\* sizeof(sig[i]) / sizeof(*sig[i])
SlotLen == SigLen

\* Address of sig[i][0].
SlotBase(i) == i * SigLen

\* MemsetRange with the call to memset left out.
MemsetRangeNone(p, bytes) == {}

\* The element addresses memset(p, 0, bytes) writes.
MemsetRange(p, bytes) == {a \in p .. (p + 2 * SigLen * PtrBytes) : (a - p) * ElemBytes < bytes}

\* startRx clearing rxSize * 4 bytes: sizeof(rxBuf) of a 32-bit data pointer.
startRxWidePointer(i, m) ==
  LET size == SlotLen
      zeroed == MemsetRange(SlotBase(i), size * 2 * PtrBytes) \cap Addrs
  IN  [m EXCEPT !.rxBuf = SlotBase(i),
                !.rxSize = size,
                !.sig = [a \in Addrs |-> IF a \in zeroed THEN 0 ELSE m.sig[a]],
                !.startMicros = Zero32,
                !.prevRx = HIGH,
                !.wrAddrs = zeroed,
                !.rxTimes = <<>>,
                !.tainted = m.tainted \ zeroed]

startRx(i, m) ==
  LET size == SlotLen
      zeroed == MemsetRange(SlotBase(i), size * PtrBytes)
  IN  [m EXCEPT !.rxBuf = SlotBase(i),
                !.rxSize = size,
                !.sig = [a \in Addrs |-> IF a \in zeroed THEN 0 ELSE m.sig[a]],
                !.startMicros = Zero32,
                !.prevRx = HIGH,
                !.wrAddrs = zeroed,
                !.rxTimes = <<>>,
                !.tainted = m.tainted \ zeroed]

\* The loop of startTx: the length of the slot at base without its zero tail.
RECURSIVE TrimLen(_, _, _)
TrimLen(mem, base, len) ==
  IF len # 0 /\ mem[base + len - 1] = 0 THEN TrimLen(mem, base, len - 1) ELSE len

startTx(i, m) ==
  [m EXCEPT !.redLed = HIGH,
            !.txBuf = SlotBase(i),
            !.txLen = TrimLen(m.sig, SlotBase(i), SlotLen),
            !.txHigh = FALSE,
            !.played = <<>>,
            !.txPolls = 0]

\* startWait without digitalWrite(kRedLedPin, LOW).
startWaitRedLeftOn(delayMillis, m, ms) ==
  [m EXCEPT !.millis = ms,
            !.waitStartMillis = ms,
            !.waitDelayMillis = U32(delayMillis)]

startWait(delayMillis, m, ms) ==
  [m EXCEPT !.redLed = LOW,
            !.millis = ms,
            !.waitStartMillis = ms,
            !.waitDelayMillis = U32(delayMillis)]

\* ms is what millis() returns if the entry action reads it.
setState(newState, m, ms) ==
  IF newState = m.state THEN m
  ELSE
    LET m1 == [m EXCEPT !.state = newState]
    IN  CASE newState = STATE_UNINITED ->
               [m1 EXCEPT !.redLed = LOW, !.greenLed = LOW, !.rxTimes = <<>>]
          [] newState = STATE_LEARN_0 ->
               startRx(0, [m1 EXCEPT !.redLed = HIGH, !.greenLed = LOW])
          [] newState = STATE_LEARN_1 ->
               startRx(1, [m1 EXCEPT !.redLed = HIGH, !.greenLed = HIGH])
          [] newState = STATE_INITED ->
               [m1 EXCEPT !.redLed = LOW, !.greenLed = HIGH, !.rxTimes = <<>>]
          [] newState = STATE_SEND_0 -> startTx(0, m1)
          [] newState = STATE_WAIT_0 ->
               startWait(kDelay1Millis, [m1 EXCEPT !.builtinLed = HIGH], ms)
          [] newState = STATE_SEND_1 -> startTx(1, m1)
          [] newState = STATE_WAIT_1 ->
               startWait(kCycleMillis - kDelay1Millis, [m1 EXCEPT !.builtinLed = LOW], ms)
          [] OTHER -> m1

\* isButtonEvent without the comparison with prevButton: true on every call
\* that reads HIGH.
isButtonEventLevel(btn, m) ==
  [m EXCEPT !.prevButton = btn,
            !.btnEvent = (btn = HIGH),
            !.risen = IF btn = HIGH THEN FALSE ELSE m.risen]

\* isButtonEvent with btn the level digitalRead(kButtonPin) returns: the
\* record after the call, its result in btnEvent.
isButtonEvent(btn, m) ==
  IF btn = m.prevButton
  THEN [m EXCEPT !.btnEvent = FALSE]
  ELSE [m EXCEPT !.prevButton = btn,
                 !.btnEvent = (btn = HIGH),
                 !.risen = IF btn = HIGH THEN FALSE ELSE m.risen]

loopUninitialized(btn, m) ==
  LET m1 == isButtonEvent(btn, m)
  IN  IF m1.btnEvent THEN setState(STATE_LEARN_0, m1, m1.millis) ELSE m1

\* loopInitialized starting to send on any change of the button, a release
\* included.
loopInitializedAnyChange(btn, m) ==
  LET m1 == isButtonEvent(btn, m)
  IN  IF btn # m.prevButton THEN setState(STATE_SEND_0, m1, m1.millis) ELSE m1

loopInitialized(btn, m) ==
  LET m1 == isButtonEvent(btn, m)
  IN  IF m1.btnEvent THEN setState(STATE_SEND_0, m1, m1.millis) ELSE m1

\* rx is the level of kRxPin and now the value of micros().
loopRx(rx, now, m) ==
  LET m0 == [m EXCEPT !.micros = now]
  IN  IF m0.startMicros # Zero32 /\ Ge32(Sub32(now, m0.startMicros), kRxTimeoutMicros)
      THEN setState(m0.state + 1,
                    [m0 EXCEPT !.doneSlots = m0.doneSlots \cup {m0.state - STATE_LEARN_0}],
                    m0.millis)
      ELSE IF rx = m0.prevRx
      THEN m0
      ELSE
        LET m1 == [m0 EXCEPT !.prevRx = rx,
                             !.sig = IF m0.rxBuf \in Addrs
                                     THEN [m0.sig EXCEPT ![m0.rxBuf] = Trunc16(Sub32(now, m0.startMicros))]
                                     ELSE m0.sig,
                             !.wrAddrs = {m0.rxBuf},
                             !.tainted = m0.tainted \ {m0.rxBuf},
                             !.rxTimes = Append(m0.rxTimes, now),
                             !.rxBuf = m0.rxBuf + 1,
                             !.rxSize = (m0.rxSize - 1 + W16) % W16,
                             !.startMicros = now]
        IN  IF m1.rxSize = 0
            THEN setState(STATE_UNINITED,
                          [m1 EXCEPT !.tainted = Addrs, !.doneSlots = {}],
                          m1.millis)
            ELSE m1

\* loopTx without the noTone(kTxPin) of the branch txLen == 0.
loopTxNoStop(oob, ms, m) ==
  LET v == IF m.txBuf \in Addrs THEN m.sig[m.txBuf] ELSE oob
      m1 == IF v # 0
            THEN [m EXCEPT !.carrier = m.txHigh,
                           !.played = Append(m.played, <<v, m.txHigh>>)]
            ELSE m
      m2 == [m1 EXCEPT !.txBuf = m.txBuf + 1,
                       !.txLen = (m.txLen - 1 + W16) % W16,
                       !.txHigh = ~m.txHigh,
                       !.txPolls = m.txPolls + 1]
  IN  IF m2.txLen = 0
      THEN setState(m2.state + 1, [m2 EXCEPT !.txBuf = nullptr], ms)
      ELSE m2

\* oob is what *txBuf yields when txBuf points past the sig array, and ms
\* the value of millis() if the phase ends on this poll.
loopTx(oob, ms, m) ==
  LET v == IF m.txBuf \in Addrs THEN m.sig[m.txBuf] ELSE oob
      m1 == IF v # 0
            THEN [m EXCEPT !.carrier = m.txHigh,
                           !.played = Append(m.played, <<v, m.txHigh>>)]
            ELSE m
      m2 == [m1 EXCEPT !.txBuf = m.txBuf + 1,
                       !.txLen = (m.txLen - 1 + W16) % W16,
                       !.txHigh = ~m.txHigh,
                       !.txPolls = m.txPolls + 1]
  IN  IF m2.txLen = 0
      THEN setState(m2.state + 1, [m2 EXCEPT !.carrier = FALSE, !.txBuf = nullptr], ms)
      ELSE m2

\* WaitExpired comparing the clock itself with the delay: now > waitDelayMillis.
WaitExpiredAbsolute(now, m) == Gt32(now, m.waitDelayMillis)

\* now - waitStartMillis > waitDelayMillis
WaitExpired(now, m) == Gt32(Sub32(now, m.waitStartMillis), m.waitDelayMillis)

\* loopWait looking at the timer before the button.
loopWaitTimerFirst(btn, now, m) ==
  LET m2 == [m EXCEPT !.millis = now]
  IN  IF Gt32(Sub32(now, m2.waitStartMillis), m2.waitDelayMillis)
      THEN setState(m2.state + 1, [m2 EXCEPT !.waitStartMillis = Zero32], m2.millis)
      ELSE
        LET m1 == isButtonEvent(btn, m2)
        IN  IF m1.btnEvent THEN setState(STATE_SEND_0, m1, m1.millis) ELSE m1

\* loopWait answering a button event by learning again: setState(STATE_LEARN_0).
loopWaitRelearn(btn, now, m) ==
  LET m1 == isButtonEvent(btn, m)
  IN  IF m1.btnEvent
      THEN setState(STATE_LEARN_0, m1, m1.millis)
      ELSE
        LET m2 == [m1 EXCEPT !.millis = now]
        IN  IF WaitExpired(now, m2)
            THEN setState(m2.state + 1, [m2 EXCEPT !.waitStartMillis = Zero32], m2.millis)
            ELSE m2

\* now is the value of millis(), read only when no button event was seen.
loopWait(btn, now, m) ==
  LET m1 == isButtonEvent(btn, m)
  IN  IF m1.btnEvent
      THEN setState(STATE_SEND_0, m1, m1.millis)
      ELSE
        LET m2 == [m1 EXCEPT !.millis = now]
        IN  IF WaitExpired(now, m2)
            THEN setState(m2.state + 1, [m2 EXCEPT !.waitStartMillis = Zero32], m2.millis)
            ELSE m2

\* Handler with case STATE_SEND_1 among the waiting states.
HandlerSend1Waits(s) ==
  CASE s = STATE_UNINITED -> "loopUninitialized"
    [] s \in {STATE_LEARN_0, STATE_LEARN_1} -> "loopRx"
    [] s = STATE_INITED -> "loopInitialized"
    [] s = STATE_SEND_0 -> "loopTx"
    [] s \in {STATE_WAIT_0, STATE_SEND_1, STATE_WAIT_1} -> "loopWait"
    [] OTHER -> "default"

\* The switch of loop(): the handler a poll in state s runs.
Handler(s) ==
  CASE s = STATE_UNINITED -> "loopUninitialized"
    [] s \in {STATE_LEARN_0, STATE_LEARN_1} -> "loopRx"
    [] s = STATE_INITED -> "loopInitialized"
    [] s \in {STATE_SEND_0, STATE_SEND_1} -> "loopTx"
    [] s \in {STATE_WAIT_0, STATE_WAIT_1} -> "loopWait"
    [] OTHER -> "default"

\* The history of the last poll, cleared as the next one starts.
Begin(m) == [m EXCEPT !.btnEvent = FALSE, !.wrAddrs = {}]

\* ------------------------------------------------------------- actions

Init ==
  /\ state = STATE_UNINITED
  /\ prevButton = HIGH
  /\ sig = [a \in Addrs |-> 0]
  /\ rxBuf = nullptr
  /\ rxSize = 0
  /\ prevRx = HIGH
  /\ startMicros = Zero32
  /\ txBuf = nullptr
  /\ txLen = 0
  /\ txHigh = FALSE
  /\ waitStartMillis = Zero32
  /\ waitDelayMillis = Zero32
  /\ redLed = LOW
  /\ greenLed = LOW
  /\ builtinLed = LOW
  /\ carrier = FALSE
  /\ button \in {LOW, HIGH}
  /\ micros = Zero32
  /\ millis = Zero32
  /\ btnEvent = FALSE
  /\ risen = FALSE
  /\ wrAddrs = {}
  /\ rxTimes = <<>>
  /\ played = <<>>
  /\ txPolls = 0
  /\ tainted = {}
  /\ doneSlots = {}

\* The button changes level between two polls.
ButtonChange ==
  /\ button' = ~button
  /\ risen' = (risen \/ button' = HIGH)
  /\ UNCHANGED <<state, prevButton, sig, rxBuf, rxSize, prevRx, startMicros,
                 txBuf, txLen, txHigh, waitStartMillis, waitDelayMillis,
                 redLed, greenLed, builtinLed, carrier, micros, millis,
                 btnEvent, wrAddrs, rxTimes, played, txPolls, tainted, doneSlots>>

PollUninitialized ==
  /\ Handler(state) = "loopUninitialized"
  /\ Assign(loopUninitialized(button, Begin(M)))
  /\ UNCHANGED button

PollRx ==
  /\ Handler(state) = "loopRx"
  /\ \E rx \in {LOW, HIGH} : \E now \in MicrosPoints :
       Assign(loopRx(rx, now, Begin(M)))
  /\ UNCHANGED button

PollInitialized ==
  /\ Handler(state) = "loopInitialized"
  /\ Assign(loopInitialized(button, Begin(M)))
  /\ UNCHANGED button

PollTx ==
  /\ Handler(state) = "loopTx"
  /\ txBuf < 2 * SigLen + MaxOob
  /\ \E oob \in (IF txBuf \in Addrs THEN {0} ELSE OobValues) :
       \E ms \in (IF txLen = 1 THEN MillisPoints ELSE {millis}) :
         Assign(loopTx(oob, ms, Begin(M)))
  /\ UNCHANGED button

PollWait ==
  /\ Handler(state) = "loopWait"
  /\ \E now \in MillisPoints : Assign(loopWait(button, now, Begin(M)))
  /\ UNCHANGED button

\* The default branch of loop().
PollDefault ==
  /\ Handler(state) = "default"
  /\ Assign(setState(STATE_SEND_0, Begin(M), millis))
  /\ UNCHANGED button

Next ==
  \/ ButtonChange
  \/ PollUninitialized
  \/ PollRx
  \/ PollInitialized
  \/ PollTx
  \/ PollWait
  \/ PollDefault

Spec == Init /\ [][Next]_vars

\* ------------------------------------------------- notions of the claims

\* The element addresses of slot i.
SlotRange(i) == SlotBase(i) .. (SlotBase(i) + SigLen - 1)

\* Index of the last non-zero entry of slot i, plus one (0 if there is none).
StoredLen(i) ==
  LET nz == {k \in 0 .. (SigLen - 1) : sig[SlotBase(i) + k] # 0}
  IN  IF nz = {} THEN 0 ELSE 1 + CHOOSE k \in nz : \A j \in nz : j <= k

\* The slot a sending state, or the waiting state after it, belongs to.
PhaseSlot(s) == IF s \in {STATE_SEND_0, STATE_WAIT_0} THEN 0 ELSE 1

\* What playing the first n entries of slot i puts on the carrier: for each
\* non-zero entry k its duration, with the carrier on for odd k.
RECURSIVE Recorded(_, _)
Recorded(i, n) ==
  IF n = 0 THEN <<>>
  ELSE LET k == n - 1
           v == sig[SlotBase(i) + k]
       IN  IF v = 0 THEN Recorded(i, k)
           ELSE Append(Recorded(i, k), <<v, k % 2 = 1>>)

Min(a, b) == IF a < b THEN a ELSE b

\* A step of loop(): every poll leaves the button's level as it is, and the
\* button changing level is no poll.
IsPoll == button' = button

\* The values a capture has stored so far in slot i.
Stored(i) == [k \in 1 .. (SigLen - rxSize) |-> sig[SlotBase(i) + k - 1]]

\* ------------------------------------------------------------------ C1
\* C1: round-trip fidelity.  During and after the sending phase of a slot
\* that was captured by a learning phase ending by timeout, what has been put
\* on the carrier is exactly the slot's entries 0..L-1 (L the index of the last
\* non-zero entry plus one) played so far, each for its stored duration, off
\* for even and on for odd indices, and nothing else.
C1_RoundTrip ==
  (state \in SendStates \cup WaitStates /\ PhaseSlot(state) \in doneSlots) =>
    played = Recorded(PhaseSlot(state),
                      IF state \in SendStates
                      THEN Min(txPolls, StoredLen(PhaseSlot(state)))
                      ELSE StoredLen(PhaseSlot(state)))

\* ------------------------------------------------------------------ C2
\* C2: every write of a learning phase (the clearing on entry and each
\* recorded value) lands inside the active slot, the remaining capacity of a
\* learning state is never zero, and the poll on which it reaches zero leaves
\* the state UNINITIALIZED.
C2_CaptureInBounds ==
  [][/\ state' \in LearnStates =>
          /\ wrAddrs' \subseteq SlotRange(state' - STATE_LEARN_0)
          /\ rxSize' \in 1 .. SigLen
     /\ (state \in LearnStates /\ state' \notin LearnStates) =>
          wrAddrs' \subseteq SlotRange(state - STATE_LEARN_0)
     /\ (state \in LearnStates /\ IsPoll /\ rxSize' = 0) =>
          state' = STATE_UNINITED]_vars

\* The last entry of slot 1 has just been written: the capture overflowed.
C2_Witness ==
  state = STATE_UNINITED /\ rxSize = 0 /\ wrAddrs = {2 * SigLen - 1}

\* ------------------------------------------------------------------ C3
\* C3: when a learning phase that observed transitions at t0 < ... < tn ends
\* by timeout, the slot holds exactly the n values t1-t0, ..., tn-t(n-1), each
\* the time elapsed since the previous transition; and a poll at least 65,536
\* microseconds after the last transition advances the state.
C3_CaptureDurations ==
  [][/\ (state \in LearnStates /\ state' = state + 1) =>
          Stored(state - STATE_LEARN_0) =
            [k \in 1 .. (Len(rxTimes) - 1) |-> Sub32(rxTimes[k + 1], rxTimes[k])[2]]
     /\ (state \in LearnStates /\ state' = state + 1) =>
          \A k \in 1 .. (Len(rxTimes) - 1) : Sub32(rxTimes[k + 1], rxTimes[k])[1] = 0
     /\ (/\ state \in LearnStates
         /\ IsPoll
         /\ rxTimes # <<>>
         /\ Ge32(Sub32(micros', rxTimes[Len(rxTimes)]), kRxTimeoutMicros)) =>
          state' = state + 1]_vars

\* ------------------------------------------------------------------ C4
\* C4: a poll on which isButtonEvent returns true sampled the button HIGH, and
\* the button has gone from LOW to HIGH since the previous poll on which it
\* returned true: at most one event per press, none on a release.
C4_ButtonOncePerPress ==
  [][(IsPoll /\ btnEvent') => (button = HIGH /\ risen /\ ~risen')]_vars

\* A press made while the button was not sampled has been detected, once, by
\* the first poll of a waiting state.
C4_Witness ==
  btnEvent /\ ~risen /\ state = STATE_SEND_0 /\ waitDelayMillis # Zero32

\* ------------------------------------------------------------------ C5
\* C5: the red LED is on exactly in LEARN_0, LEARN_1, SEND_0 and SEND_1; the
\* green LED is off exactly in UNINITED and LEARN_0.
C5_Indicators ==
  /\ (redLed = HIGH) <=> (state \in LearnStates \cup SendStates)
  /\ (greenLed = LOW) <=> (state \in {STATE_UNINITED, STATE_LEARN_0})

\* UNINITIALIZED after an overflow of the second capture, both LEDs off.
C5_Witness ==
  state = STATE_UNINITED /\ tainted # {} /\ redLed = LOW /\ greenLed = LOW
    /\ wrAddrs = {2 * SigLen - 1}

\* ------------------------------------------------------------------ C6
\* C6: a button event in READY leads to SEND_0; the sending phase of a slot with
\* N stored entries takes exactly N polls, and the poll that ends it leaves the
\* carrier off, the state WAIT_0 and the wait timer armed with 43,200,000 ms
\* from the value of millis().
C6_SendThenWaitShort ==
  /\ [](state = STATE_SEND_0 => txPolls < StoredLen(0))
  /\ [][(state = STATE_INITED /\ IsPoll /\ btnEvent') => state' = STATE_SEND_0]_vars
  /\ [][(state = STATE_SEND_0 /\ state' # STATE_SEND_0) =>
          /\ txPolls' = StoredLen(0)
          /\ state' = STATE_WAIT_0
          /\ carrier' = FALSE
          /\ waitDelayMillis' = U32(43200000)
          /\ waitStartMillis' = millis']_vars

\* ------------------------------------------------------------------ C7
\* C7: a poll of WAIT_0 or WAIT_1 that finds the button HIGH after having last
\* sampled it LOW leaves the state SEND_0 with the playback cursor at the start
\* of slot 0 (length without the zero tail, polarity off), whatever millis()
\* is and whether or not the armed delay has expired.
C7_ManualRestart ==
  [][(state \in WaitStates /\ IsPoll /\ button = HIGH /\ prevButton = LOW) =>
       /\ state' = STATE_SEND_0
       /\ btnEvent'
       /\ txBuf' = SlotBase(0)
       /\ txLen' = StoredLen(0)
       /\ txHigh' = FALSE]_vars

\* SEND_0 entered by a button event out of WAIT_0 (the built-in LED, lit on
\* entry to WAIT_0, is still on).
C7_Witness ==
  state = STATE_SEND_0 /\ btnEvent /\ builtinLed = HIGH /\ txPolls = 0

\* ------------------------------------------------------------------ C8
\* The named state the controller is in: a value of state outside the
\* enumeration is on its way to SEND_0 through the default branch of loop().
Visited(s) == IF s \in 0 .. STATE_WAIT_1 THEN s ELSE STATE_SEND_0

\* The state after s in the send cycle.
CycleNext(s) ==
  CASE s = STATE_SEND_0 -> STATE_WAIT_0
    [] s = STATE_WAIT_0 -> STATE_SEND_1
    [] s = STATE_SEND_1 -> STATE_WAIT_1
    [] s = STATE_WAIT_1 -> STATE_SEND_0

C9_OverflowRelearn ==
  /\ (rxSize = 0 => state = STATE_UNINITED)
  /\ (state \notin {STATE_UNINITED, STATE_LEARN_0, STATE_LEARN_1} =>
        (tainted = {} /\ doneSlots = {0, 1}))
  /\ (state = STATE_LEARN_1 => (tainted = {} /\ doneSlots = {0}))
  /\ (state = STATE_LEARN_0 => (tainted \cap SlotRange(0) = {} /\ doneSlots = {}))

\* Relearning the first pattern after an overflow of the second capture,
\* slot 1 still holding what that capture stored.
C9_Witness ==
  /\ state = STATE_LEARN_0
  /\ tainted = SlotRange(1)
  /\ sig[SlotBase(1)] # 0
  /\ sig[SlotBase(0)] # 0

\* ----------------------------------------------------------------- C10
\* Sequence p begins with sequence q.
StartsWith(p, q) == Len(p) >= Len(q) /\ SubSeq(p, 1, Len(q)) = q

\* C10: in SEND_0 and SEND_1 a poll does not sample the button, and every step
\* leaves the state as it is or moves it to the following state (WAIT_0 after
\* SEND_0, WAIT_1 after SEND_1), and that only on a poll that ends with no
\* entry left to play, all of the stored entries having been played.
C10_SendUninterruptible ==
  [][(state \in SendStates) =>
       (/\ prevButton' = prevButton
        /\ ~(IsPoll /\ btnEvent')
        /\ (state' # state =>
              (/\ state' = state + 1
               /\ txLen' = 0
               /\ txPolls' >= StoredLen(PhaseSlot(state))
               /\ StartsWith(played', Recorded(PhaseSlot(state), StoredLen(PhaseSlot(state)))))))
    ]_vars

\* WAIT_1 reached at the end of SEND_1 although the button was pressed during
\* the sending: the press is still to be sampled.
C10_Witness ==
  state = STATE_WAIT_1 /\ prevButton = LOW /\ button = HIGH /\ txPolls > 1
    /\ carrier = FALSE /\ Len(played) > 1

\* ----------------------------------------------------------------- C11
\* C11: a step that changes the state out of UNINITED or out of READY is a
\* poll on which isButtonEvent returned true, and it leads to LEARN_0 and to
\* SEND_0 respectively.
C11_IdleWaitsForButton ==
  [][(state \in {STATE_UNINITED, STATE_INITED} /\ state' # state) =>
       /\ IsPoll
       /\ btnEvent'
       /\ button = HIGH
       /\ state' = IF state = STATE_UNINITED THEN STATE_LEARN_0 ELSE STATE_SEND_0]_vars

\* READY left for SEND_0 by a button event, both patterns learned.
C11_Witness ==
  /\ state = STATE_SEND_0
  /\ btnEvent
  /\ txPolls = 0
  /\ waitDelayMillis = Zero32
  /\ doneSlots = {0, 1}

\* ----------------------------------------------------------------- C12
\* C12: a poll of a learning state made after at least one transition was
\* recorded, more than 65,536 microseconds after the last recorded transition,
\* advances the state; and as long as no transition has been recorded a poll
\* leaves the learning state as it is.
C12_CaptureCompletion ==
  [][(state \in LearnStates /\ IsPoll) =>
       /\ (rxTimes # <<>> /\ Gt32(Sub32(micros', rxTimes[Len(rxTimes)]), kRxTimeoutMicros))
            => state' = state + 1
       /\ (rxTimes = <<>> /\ rxTimes' = <<>>) => state' = state]_vars

\* ----------------------------------------------------------------- C13
\* C13: the poll of WAIT_1 on which the armed delay has elapsed, without a
\* button event, leaves the state SEND_0 with the playback cursor at the start
\* of slot 0; and state is always one of the eight enumerated values.
C13_WaitLongToSendFirst ==
  /\ [](state \in STATE_UNINITED .. STATE_WAIT_1)
  /\ [][(/\ state = STATE_WAIT_1
         /\ IsPoll
         /\ ~btnEvent'
         /\ Gt32(Sub32(millis', waitStartMillis), waitDelayMillis)) =>
          (state' = STATE_SEND_0 /\ txBuf' = SlotBase(0))]_vars

\* ----------------------------------------------------------------- C14
\* The entries of slot i that a step changes.
Changed(i) == {a \in SlotRange(i) : sig'[a] # sig[a]}

\* C14: a step changes or writes entries of slot i only if it starts in or
\* leads to LEARN_i; a step entering LEARN_i writes exactly the entries of
\* slot i, leaves them all zero and leaves the other slot as it is; and a step
\* between states that are no learning states (sending and waiting among
\* them) leaves sig as it is.
C14_SlotOwnership ==
  [][/\ \A i \in {0, 1} :
          /\ (Changed(i) # {} \/ (IsPoll /\ wrAddrs' \cap SlotRange(i) # {})) =>
                (state = STATE_LEARN_0 + i \/ state' = STATE_LEARN_0 + i)
          /\ (state # STATE_LEARN_0 + i /\ state' = STATE_LEARN_0 + i) =>
                /\ wrAddrs' = SlotRange(i)
                /\ \A a \in SlotRange(i) : sig'[a] = 0
                /\ Changed(1 - i) = {}
     /\ wrAddrs' \subseteq Addrs
     /\ (state \notin LearnStates /\ state' \notin LearnStates) =>
          (sig' = sig /\ (IsPoll => wrAddrs' = {}))]_vars

\* LEARN_1 has recorded its first transition, slot 0 holding what LEARN_0
\* stored.
C14_Witness ==
  /\ state = STATE_LEARN_1
  /\ rxSize = SigLen - 1
  /\ sig[SlotBase(0)] # 0
  /\ sig[SlotBase(1)] # 0

\* ----------------------------------------------------------------- C15
\* The clock value a recorded duration is measured from: the previous recorded
\* transition, or the zero of micros() if there is none.
MeasuredFrom == IF rxTimes = <<>> THEN Zero32 ELSE rxTimes[Len(rxTimes)]

\* C15: every value a poll of a learning state stores, at index 0 as at the
\* others, is the number of microseconds elapsed between the two events it
\* measures, and that number is below 2^16: no stored value is a truncation.
C15_StoredDurationsExact ==
  [][(state \in LearnStates /\ IsPoll /\ wrAddrs' = {rxBuf}) =>
       /\ Sub32(micros', MeasuredFrom)[1] = 0
       /\ sig'[rxBuf] = Sub32(micros', MeasuredFrom)[2]]_vars

\* ----------------------------------------------------------------- C16
\* C16: the end of a wait and the capture timeout are both decided on the
\* elapsed time modulo 2^32, whatever the clock values are and also when the
\* counter wraps past zero in between: a poll of a waiting state without a
\* button event leaves the state exactly if (millis() - waitStartMillis) mod
\* 2^32 exceeds the armed delay, and a poll of a learning state after a
\* recorded transition ends the capture exactly if (micros() - last
\* transition) mod 2^32 has reached the timeout.
C16_WraparoundSafe ==
  /\ [][(state \in WaitStates /\ IsPoll /\ ~btnEvent') =>
          (state' # state <=>
             Gt32(Sub32(millis', waitStartMillis), waitDelayMillis))]_vars
  /\ [][(state \in LearnStates /\ IsPoll /\ rxTimes # <<>>) =>
          (state' = state + 1 <=>
             Ge32(Sub32(micros', rxTimes[Len(rxTimes)]), kRxTimeoutMicros))]_vars

\* ----------------------------------------------------------------- C17
\* C17: in a sending state the playback cursor points into the active slot,
\* the remaining length is at most the slot's length (it never wraps below
\* zero) and fewer polls than the slot has entries have been made; and a poll
\* of a sending state whose slot holds only zeros leaves the carrier off and
\* moves to the following waiting state.
C17_PlaybackInSlot ==
  /\ [](state \in SendStates =>
          /\ txBuf \in SlotRange(PhaseSlot(state))
          /\ txLen <= SigLen
          /\ txPolls < SigLen)
  /\ [][(state \in SendStates /\ IsPoll /\ StoredLen(PhaseSlot(state)) = 0) =>
          (carrier' = FALSE /\ state' = state + 1)]_vars

\* ----------------------------------------------------------------- C18
\* C18: whenever the state is not SEND_0 or SEND_1 the carrier is off: it is
\* on only inside a sending phase, and the poll that ends the phase turns it
\* off whether the last entry was played with the carrier on or off.
C18_CarrierQuiescence == state \notin SendStates => carrier = FALSE

\* A waiting state reached from a sending phase whose last entry was played
\* with the carrier on.
C18_Witness ==
  /\ state \in WaitStates
  /\ played # <<>>
  /\ played[Len(played)][2] = TRUE
  /\ carrier = FALSE

\* ----------------------------------------------------------------- C19
\* C19: once the state is READY or any state after it, no step (a button
\* change, or a poll with whatever pin levels and clock values) leads to
\* UNINITED, LEARN_0 or LEARN_1, and no step changes sig.
C19_LearnedIsPermanent ==
  [][(state \notin {STATE_UNINITED, STATE_LEARN_0, STATE_LEARN_1}) =>
       /\ state' \notin {STATE_UNINITED, STATE_LEARN_0, STATE_LEARN_1}
       /\ sig' = sig]_vars

\* SEND_0 entered by a button event out of WAIT_1, both slots holding what was
\* learned before READY.
C19_Witness ==
  /\ state = STATE_SEND_0
  /\ btnEvent
  /\ waitDelayMillis = U32(kCycleMillis - kDelay1Millis)
  /\ sig[SlotBase(0)] # 0
  /\ sig[SlotBase(1)] # 0

\* ----------------------------------------------------------------- C20
\* The handler functions the switch of loop() calls.
Handlers == {"loopUninitialized", "loopRx", "loopInitialized", "loopTx", "loopWait"}

\* A step changes the capture cursor, the playback cursor and the wait timer
\* only out of or into a learning, a sending and a waiting state respectively.
CursorsFollowState ==
  [][/\ (<<rxBuf, rxSize, startMicros, prevRx>>' # <<rxBuf, rxSize, startMicros, prevRx>>) =>
          (state \in LearnStates \/ state' \in LearnStates)
     /\ (<<txBuf, txLen, txHigh>>' # <<txBuf, txLen, txHigh>>) =>
          (state \in SendStates \/ state' \in SendStates)
     /\ (<<waitStartMillis, waitDelayMillis>>' # <<waitStartMillis, waitDelayMillis>>) =>
          (state \in WaitStates \/ state' \in WaitStates)]_vars

\* C20: every poll runs the one handler of the category of its state, and a
\* step changes the capture cursor only out of or into a learning state, the
\* playback cursor only out of or into a sending state and the wait timer only
\* out of or into a waiting state.
C20_PhaseLocalState ==
  [][/\ IsPoll => Handler(state) \in Handlers
     /\ (<<rxBuf, rxSize, startMicros, prevRx>>' # <<rxBuf, rxSize, startMicros, prevRx>>) =>
          (state \in LearnStates \/ state' \in LearnStates)
     /\ (<<txBuf, txLen, txHigh>>' # <<txBuf, txLen, txHigh>>) =>
          (state \in SendStates \/ state' \in SendStates)
     /\ (<<waitStartMillis, waitDelayMillis>>' # <<waitStartMillis, waitDelayMillis>>) =>
          (state \in WaitStates \/ state' \in WaitStates)]_vars

====
